---- MODULE Spec2Model ----
(***************************************************************************)
(* State-machine model of the bit-packed, odd-only Sieve of Eratosthenes   *)
(* in src/sieve.c (lines 87-336: sieve_simple, find_base_primes,           *)
(* sieve_segmented and the dispatcher sieve_of_eratosthenes).              *)
(*                                                                         *)
(* Every size_t value is kept in WordBits-bit unsigned arithmetic, one     *)
(* action is one loop iteration or one straight-line block of the C code,  *)
(* and the C locals keep their names.  The three bit buffers of the source *)
(* (sieve in sieve_simple, sieve in find_base_primes, seg_sieve in         *)
(* sieve_segmented) are never live at the same time and share the variable *)
(* sieve; the same holds for the loop locals i, p and multiple.            *)
(***************************************************************************)
EXTENDS Integers, Sequences, FiniteSets, TLC

\* ------------------------------------------------------------------------
\* Scaling
\* ------------------------------------------------------------------------

\* Width of size_t.  The source runs with 64 bits; the model keeps the same
\* modular arithmetic in a narrower word.
WordBits == 8

\* THRESHOLD (src/sieve.c:328, 10000000 in the source), scaled to the word.
THRESHOLD == 32

\* SEGMENT_SIZE (src/sieve.c:177, 256*1024 in the source), scaled to the word.
SEGMENT_SIZE == 16

\* Window spans 1..MaxSpan are tried besides SEGMENT_SIZE by the
\* cross-validation harness.
MaxSpan == 3

\* Largest bound the cross-validation harness calls the engines with.
MaxHarnessN == 84

\* Longest record kept of the numbers a call counts; a call that would count
\* more (it can only do so after a wrap-around) is followed no further.
MaxFound == 256

\* Significand width of double.  The source has 53 bits beside the 64-bit
\* word; the model keeps a significand one bit short of the word.
MantBits == 7

SIZE_MAX == 2^WordBits - 1

\* Unsigned wrap-around of a size_t expression.
Wrap(x) == x % (2^WordBits)

Spans == (1..MaxSpan) \cup {SEGMENT_SIZE}

\* ------------------------------------------------------------------------
\* Mathematical reference (not code): primality by trial division.
\* ------------------------------------------------------------------------
IsPrime(k) == k >= 2 /\ \A d \in 2..(k - 1) : k % d # 0

PrimesUpTo(m) == {k \in 2..m : IsPrime(k)}

Range(s) == {s[k] : k \in 1..Len(s)}

StrictlyIncreasing(s) == \A k \in 1..(Len(s) - 1) : s[k] < s[k + 1]

\* ------------------------------------------------------------------------
\* Bit buffers.  A buffer of byte_count bytes is the set of the indices whose
\* bit is 1; memset(.., 0xFF, byte_count) sets every bit of every byte.
\* ------------------------------------------------------------------------
AllBits(bytes) == 0..(8 * bytes - 1)

InBuffer(idx, bytes) == idx < 8 * bytes

GET_BIT(arr, idx) == idx \in arr

\* Toggles the bit instead of clearing it.
FlipBit(arr, idx) == IF idx \in arr THEN arr \ {idx} ELSE arr \cup {idx}

CLEAR_BIT(arr, idx) == arr \ {idx}

\* Integer square root, the exact value the floating-point computation of
\* line 230 approximates.
ISqrt(m) ==
    CHOOSE r \in 0..(2^WordBits) : r * r <= m /\ (r + 1) * (r + 1) > m

\* floor(log2(x)) for x >= 1: the binary exponent of a double.
Log2(x) == CHOOSE e \in 0..(2 * WordBits) : 2^e <= x /\ x < 2^(e + 1)

\* (double)m: the nearest value with MantBits significant bits, ties to the
\* even significand.
ToDouble(m) ==
    IF m < 2^MantBits
    THEN m
    ELSE LET u == 2^(Log2(m) - (MantBits - 1))
             q == m \div u
             r == m % u
         IN IF 2 * r > u \/ (2 * r = u /\ q % 2 = 1)
            THEN (q + 1) * u
            ELSE q * u

\* sqrt(x) of <math.h>: the square root rounded to the nearest value with
\* MantBits significant bits, as a pair <<significand, fraction bits>>.
SqrtDouble(x) ==
    LET f == MantBits - 1 - Log2(ISqrt(x))
        y == x * 4^f
        s == ISqrt(y)
    IN <<IF y > s * s + s THEN s + 1 ELSE s, f>>

\* (size_t)sqrt((double)m) of line 230: conversion, rounded square root,
\* truncation.  The result is floor(sqrt(m)) or one more.
SqrtN(m) ==
    IF m = 0
    THEN 0
    ELSE LET r == SqrtDouble(ToDouble(m))
         IN Wrap(r[1] \div 2^(r[2]))

\* The value of line 230 for every n of the word, computed once.
SqrtTable == [m \in 0..SIZE_MAX |-> SqrtN(m)]

VARIABLES
    pc,            \* position in the code
    entry,         \* function the caller invoked
    path,          \* engine that runs: "none", "simple", "segmented"
    n,             \* parameter n
    output_file,   \* parameter output_file: "NULL" or "path"
    segment_size,  \* the SEGMENT_SIZE the code was built with
    fp,            \* FILE *fp: "NULL" or "open"
    sieve,         \* bit buffer: set of indices whose bit is set
    bit_count, byte_count,
    i, p, multiple,
    prime_count,
    limit, max_primes, count,          \* find_base_primes
    sqrt_n, base_primes, base_count,   \* sieve_segmented, phase 1
    segment_low, segment_high, first_odd, last_odd, odd_count,
    result,        \* value returned to the caller
    emitted,       \* numbers written to the file, in order
    found,         \* numbers counted, in order (written or not)
    calls,         \* calls made so far
    prev           \* outcome of the previous call

locals == <<fp, sieve, bit_count, byte_count, i, p, multiple, prime_count,
            limit, max_primes, count, sqrt_n, base_primes, base_count,
            segment_low, segment_high, first_odd, last_odd, odd_count>>

args == <<entry, n, output_file, segment_size>>

history == <<calls, prev>>

vars == <<pc, path, args, locals, result, emitted, found, history>>

NoCall == [entry |-> "none"]

FreshLocals ==
    /\ fp = "NULL" /\ sieve = {} /\ bit_count = 0 /\ byte_count = 0
    /\ i = 0 /\ p = 0 /\ multiple = 0 /\ prime_count = 0
    /\ limit = 0 /\ max_primes = 0 /\ count = 0
    /\ sqrt_n = 0 /\ base_primes = <<>> /\ base_count = 0
    /\ segment_low = 0 /\ segment_high = 0 /\ first_odd = 0
    /\ last_odd = 0 /\ odd_count = 0

\* main.c:36 : one call of sieve_of_eratosthenes(limit, output_file) in a
\* build with the source's SEGMENT_SIZE.
Init ==
    /\ pc = "dispatch"
    /\ entry = "sieve_of_eratosthenes"
    /\ path = "none"
    /\ n \in 0..SIZE_MAX
    /\ output_file \in {"NULL", "path"}
    /\ segment_size = SEGMENT_SIZE
    /\ FreshLocals
    /\ result = 0 /\ emitted = <<>> /\ found = <<>>
    /\ calls = 1 /\ prev = NoCall

\* fopen(output_file, "w") at src/sieve.c:137-143 and 237-242: no call when
\* output_file is NULL, otherwise the file system decides.
FopenResults == IF output_file = "NULL" THEN {"NULL"} ELSE {"NULL", "open"}

\* Counts a value only when it is written.
EmitCountsWrites(value) ==
    /\ Len(found) < MaxFound
    /\ prime_count' = IF fp # "NULL" THEN Wrap(prime_count + 1) ELSE prime_count
    /\ found' = IF fp # "NULL" THEN Append(found, value) ELSE found
    /\ emitted' = IF fp # "NULL" THEN Append(emitted, value) ELSE emitted

\* prime_count++ together with the guarded fprintf that follows it
\* (src/sieve.c:158-161, 248-251, 307-310).
Emit(value) ==
    /\ Len(found) < MaxFound
    /\ prime_count' = Wrap(prime_count + 1)
    /\ found' = Append(found, value)
    /\ emitted' = IF fp # "NULL" THEN Append(emitted, value) ELSE emitted

\* Lets the bound 1 through.
TerminalCaseBelowOne(m) == m < 1

\* The terminal case of both engines (src/sieve.c:101 and 225).
TerminalCase(m) == m < 2

\* Starts one stride late and leaves the square itself unmarked.
MarkStartSkipsSquare(q) == Wrap(q * q + 2 * q)

\* The start of a marking loop over the full range (src/sieve.c:126, 195).
MarkStart(q) == Wrap(q * q)

\* The bit of the odd number m in a window that starts at the odd number
\* first (src/sieve.c:295).
LocalIdx(m, first) == (m - first) \div 2

\* Rounds up: the bit of the odd number after m.
BitIdxRoundUp(m) == Wrap(m + 1) \div 2

\* The bit of the odd number m in a full-range buffer (src/sieve.c:127, 196).
BitIdx(m) == Wrap(m - 1) \div 2

\* ------------------------------------------------------------------------
\* sieve_of_eratosthenes, src/sieve.c:330-336
\* ------------------------------------------------------------------------

\* Sends the bound THRESHOLD itself to the single-pass engine.
UsesSimpleInclusive(m) == m <= THRESHOLD

\* The test of line 331.
UsesSimple(m) == m < THRESHOLD

Dispatch ==
    /\ pc = "dispatch"
    /\ IF UsesSimple(n)
       THEN pc' = "simple" /\ path' = "simple"
       ELSE pc' = "segmented" /\ path' = "segmented"
    /\ UNCHANGED <<args, locals, result, emitted, found, history>>

\* ------------------------------------------------------------------------
\* sieve_simple, src/sieve.c:100-171
\* ------------------------------------------------------------------------

\* Lines 101-116 and the loop initialisation of line 120.  With n = SIZE_MAX
\* the sum n + 1 wraps to 0, the buffer has no bytes and CLEAR_BIT(sieve, 0)
\* writes outside it: the write either faults or lands in other memory.
SimpleEnter ==
    /\ pc = "simple"
    /\ path' = "simple"
    /\ IF TerminalCase(n)
       THEN /\ result' = 0
            /\ pc' = "done"
            /\ UNCHANGED locals
       ELSE LET bc == Wrap(n + 1) \div 2
                by == Wrap(bc + 7) \div 8
            IN /\ bit_count' = bc
               /\ byte_count' = by
               /\ sieve' = CLEAR_BIT(AllBits(by), 0)
               /\ i' = 1
               /\ \/ pc' = "simple_outer"
                  \/ ~InBuffer(0, by) /\ pc' = "crashed"
               /\ UNCHANGED <<fp, p, multiple, prime_count, limit, max_primes,
                              count, sqrt_n, base_primes, base_count,
                              segment_low, segment_high, first_odd, last_odd,
                              odd_count>>
               /\ UNCHANGED result
    /\ UNCHANGED <<args, emitted, found, history>>

\* The values GET_BIT(arr, idx) can yield: the stored bit, or any value when
\* the index lies outside the buffer.
BitValues(arr, idx, bytes) ==
    IF InBuffer(idx, bytes) THEN {GET_BIT(arr, idx)} ELSE BOOLEAN

\* Lines 120-122 and the initialisation of line 126: the test of the outer
\* loop, the bit test, and either the start of the inner loop or i++.
SimpleOuter ==
    /\ pc = "simple_outer"
    /\ LET q == Wrap(2 * i + 1)
       IN IF Wrap(q * q) <= n
          THEN \E bit \in BitValues(sieve, i, byte_count) :
                 IF bit
                 THEN /\ p' = q
                      /\ multiple' = MarkStart(q)
                      /\ pc' = "simple_mark"
                      /\ UNCHANGED i
                 ELSE /\ i' = Wrap(i + 1)
                      /\ UNCHANGED <<p, multiple, pc>>
          ELSE /\ pc' = "simple_open"
               /\ UNCHANGED <<i, p, multiple>>
    /\ UNCHANGED <<path, args, fp, sieve, bit_count, byte_count, prime_count,
                   limit, max_primes, count, sqrt_n, base_primes, base_count,
                   segment_low, segment_high, first_odd, last_odd, odd_count,
                   result, emitted, found, history>>

\* Lines 126-129: one iteration of the inner loop, or its exit and the i++
\* of the outer loop.
SimpleMark ==
    /\ pc = "simple_mark"
    /\ IF multiple <= n
       THEN LET bit_idx == BitIdx(multiple)
            IN /\ sieve' = CLEAR_BIT(sieve, bit_idx)
               /\ multiple' = Wrap(multiple + Wrap(2 * p))
               /\ \/ pc' = pc
                  \/ ~InBuffer(bit_idx, byte_count) /\ pc' = "crashed"
               /\ UNCHANGED i
       ELSE /\ i' = Wrap(i + 1)
            /\ pc' = "simple_outer"
            /\ UNCHANGED <<sieve, multiple>>
    /\ UNCHANGED <<path, args, fp, bit_count, byte_count, p, prime_count,
                   limit, max_primes, count, sqrt_n, base_primes, base_count,
                   segment_low, segment_high, first_odd, last_odd, odd_count,
                   result, emitted, found, history>>

\* Lines 134-151 and the initialisation of line 154: fopen, then the prime 2.
SimpleOpen ==
    /\ pc = "simple_open"
    /\ \E f \in FopenResults :
         /\ fp' = f
         /\ IF n >= 2
            THEN /\ prime_count' = 1
                 /\ found' = Append(found, 2)
                 /\ emitted' = IF f # "NULL" THEN Append(emitted, 2) ELSE emitted
            ELSE /\ prime_count' = 0
                 /\ UNCHANGED <<found, emitted>>
    /\ i' = 1
    /\ pc' = "simple_count"
    /\ UNCHANGED <<path, args, sieve, bit_count, byte_count, p, multiple,
                   limit, max_primes, count, sqrt_n, base_primes, base_count,
                   segment_low, segment_high, first_odd, last_odd, odd_count,
                   result, history>>

\* Lines 154-164: one iteration of the counting loop.
SimpleCount ==
    /\ pc = "simple_count"
    /\ i < bit_count
    /\ \E bit \in BitValues(sieve, i, byte_count) :
         LET prime == Wrap(2 * i + 1)
         IN IF bit /\ prime <= n
            THEN Emit(prime)
            ELSE UNCHANGED <<prime_count, found, emitted>>
    /\ i' = Wrap(i + 1)
    /\ UNCHANGED <<pc, path, args, fp, sieve, bit_count, byte_count, p,
                   multiple, limit, max_primes, count, sqrt_n, base_primes,
                   base_count, segment_low, segment_high, first_odd, last_odd,
                   odd_count, result, history>>

\* Lines 154 (loop exit) and 166-170: fclose and return prime_count.
SimpleReturn ==
    /\ pc = "simple_count"
    /\ ~(i < bit_count)
    /\ result' = prime_count
    /\ pc' = "done"
    /\ UNCHANGED <<path, args, locals, emitted, found, history>>

fbpvars == <<limit, max_primes, count>>

winvars == <<segment_low, segment_high, first_odd, last_odd, odd_count>>

\* ------------------------------------------------------------------------
\* sieve_segmented, phase 1, src/sieve.c:224-233
\* ------------------------------------------------------------------------

\* The capacity of base_primes (src/sieve.c:231).
MaxBasePrimes(s) == s

\* Lines 225-233 up to the call of find_base_primes(sqrt_n, base_primes,
\* max_base_primes).  base_primes holds the entries written so far; its
\* capacity max_base_primes is passed on as max_primes.
SegEnter ==
    /\ pc = "segmented"
    /\ path' = "segmented"
    /\ IF TerminalCase(n)
       THEN /\ result' = 0
            /\ pc' = "done"
            /\ UNCHANGED locals
       ELSE /\ sqrt_n' = SqrtTable[n]
            /\ base_primes' = <<>>
            /\ limit' = SqrtTable[n]
            /\ max_primes' = MaxBasePrimes(SqrtTable[n])
            /\ pc' = "fbp"
            /\ UNCHANGED <<fp, sieve, bit_count, byte_count, i, p, multiple,
                           prime_count, count, base_count, winvars>>
            /\ UNCHANGED result
    /\ UNCHANGED <<args, emitted, found, history>>

\* ------------------------------------------------------------------------
\* find_base_primes, src/sieve.c:180-221
\* ------------------------------------------------------------------------

\* Lines 181-189 and the initialisation of line 192; with limit < 2 the
\* function returns 0 at once (line 181) and the caller stores base_count.
FbpEnter ==
    /\ pc = "fbp"
    /\ IF limit < 2
       THEN /\ base_count' = 0
            /\ pc' = "seg_open"
            /\ UNCHANGED <<sieve, bit_count, byte_count, i>>
       ELSE LET bc == Wrap(limit + 1) \div 2
                by == Wrap(bc + 7) \div 8
            IN /\ bit_count' = bc
               /\ byte_count' = by
               /\ sieve' = CLEAR_BIT(AllBits(by), 0)
               /\ i' = 1
               /\ pc' = "fbp_outer"
               /\ UNCHANGED base_count
    /\ UNCHANGED <<path, args, fp, p, multiple, prime_count, fbpvars, sqrt_n,
                   base_primes, winvars, result, emitted, found, history>>

\* Lines 192-195: the test of the outer loop and the bit test.
FbpOuter ==
    /\ pc = "fbp_outer"
    /\ LET q == Wrap(2 * i + 1)
       IN IF Wrap(q * q) <= limit
          THEN \E bit \in BitValues(sieve, i, byte_count) :
                 IF bit
                 THEN /\ p' = q
                      /\ multiple' = MarkStart(q)
                      /\ pc' = "fbp_mark"
                      /\ UNCHANGED i
                 ELSE /\ i' = Wrap(i + 1)
                      /\ UNCHANGED <<p, multiple, pc>>
          ELSE /\ pc' = "fbp_two"
               /\ UNCHANGED <<i, p, multiple>>
    /\ UNCHANGED <<path, args, fp, sieve, bit_count, byte_count, prime_count,
                   fbpvars, sqrt_n, base_primes, base_count, winvars,
                   result, emitted, found, history>>

\* Lines 195-198: one iteration of the inner loop, or its exit and i++.
FbpMark ==
    /\ pc = "fbp_mark"
    /\ IF multiple <= limit
       THEN LET idx == BitIdx(multiple)
            IN /\ sieve' = CLEAR_BIT(sieve, idx)
               /\ multiple' = Wrap(multiple + Wrap(2 * p))
               /\ \/ pc' = pc
                  \/ ~InBuffer(idx, byte_count) /\ pc' = "crashed"
               /\ UNCHANGED i
       ELSE /\ i' = Wrap(i + 1)
            /\ pc' = "fbp_outer"
            /\ UNCHANGED <<sieve, multiple>>
    /\ UNCHANGED <<path, args, fp, bit_count, byte_count, p, prime_count,
                   fbpvars, sqrt_n, base_primes, base_count, winvars,
                   result, emitted, found, history>>

\* Lines 203-208 and the initialisation of line 211: count = 0, then the
\* prime 2 when the array has room for it.
FbpTwo ==
    /\ pc = "fbp_two"
    /\ IF limit >= 2 /\ 0 < max_primes
       THEN /\ base_primes' = <<2>>
            /\ count' = 1
       ELSE /\ base_primes' = <<>>
            /\ count' = 0
    /\ i' = 1
    /\ pc' = "fbp_collect"
    /\ UNCHANGED <<path, args, fp, sieve, bit_count, byte_count, p, multiple,
                   prime_count, limit, max_primes, sqrt_n, base_count,
                   winvars, result, emitted, found, history>>

\* Lines 211-218: one iteration of the collecting loop.
FbpCollect ==
    /\ pc = "fbp_collect"
    /\ i < bit_count /\ count < max_primes
    /\ \E bit \in BitValues(sieve, i, byte_count) :
         LET prime == Wrap(2 * i + 1)
         IN IF bit /\ prime <= limit
            THEN /\ base_primes' = Append(base_primes, prime)
                 /\ count' = Wrap(count + 1)
            ELSE UNCHANGED <<base_primes, count>>
    /\ i' = Wrap(i + 1)
    /\ UNCHANGED <<pc, path, args, fp, sieve, bit_count, byte_count, p,
                   multiple, prime_count, limit, max_primes, sqrt_n,
                   base_count, winvars, result, emitted, found, history>>

\* Line 211 (loop exit), line 220 and the assignment of line 233.
FbpReturn ==
    /\ pc = "fbp_collect"
    /\ ~(i < bit_count /\ count < max_primes)
    /\ base_count' = count
    /\ pc' = "seg_open"
    /\ UNCHANGED <<path, args, fp, sieve, bit_count, byte_count, i, p,
                   multiple, prime_count, fbpvars, sqrt_n, base_primes,
                   winvars, result, emitted, found, history>>

\* ------------------------------------------------------------------------
\* sieve_segmented, src/sieve.c:235-322
\* ------------------------------------------------------------------------

\* Lines 236-244 and the initialisation of line 247.
SegOpen ==
    /\ pc = "seg_open"
    /\ fp' \in FopenResults
    /\ prime_count' = 0
    /\ i' = 0
    /\ pc' = "seg_base"
    /\ UNCHANGED <<path, args, sieve, bit_count, byte_count, p, multiple,
                   fbpvars, sqrt_n, base_primes, base_count, winvars,
                   result, emitted, found, history>>

\* Lines 247-252: one iteration of the loop that reports the base primes.
SegBase ==
    /\ pc = "seg_base"
    /\ i < base_count
    /\ Emit(base_primes[i + 1])
    /\ i' = Wrap(i + 1)
    /\ UNCHANGED <<pc, path, args, fp, sieve, bit_count, byte_count, p,
                   multiple, fbpvars, sqrt_n, base_primes, base_count,
                   winvars, result, history>>

\* Line 247 (loop exit) and line 255.
SegFirstWindow ==
    /\ pc = "seg_base"
    /\ ~(i < base_count)
    /\ segment_low' = Wrap(sqrt_n + 1)
    /\ pc' = "seg_while"
    /\ UNCHANGED <<path, args, fp, sieve, bit_count, byte_count, i, p,
                   multiple, prime_count, fbpvars, sqrt_n, base_primes,
                   base_count, segment_high, first_odd, last_odd, odd_count,
                   result, emitted, found, history>>

\* Lines 257-270 and the initialisation of line 273: the bounds of a window
\* and its bit buffer.  When the window holds no odd number, last_odd is
\* below first_odd, the unsigned difference wraps and the buffer is declared
\* with 2^(WordBits-1) bits: the allocation overflows the stack, or, where
\* the stack has the room, succeeds.
SegWindow ==
    /\ pc = "seg_while"
    /\ segment_low <= n
    /\ LET reach == Wrap(Wrap(segment_low + segment_size) - 1)
           high  == IF reach > n THEN n ELSE reach
           first == IF segment_low % 2 = 0 THEN Wrap(segment_low + 1)
                    ELSE segment_low
           last  == IF high % 2 = 0 THEN Wrap(high - 1) ELSE high
           oc    == Wrap(Wrap(last - first) \div 2 + 1)
           by    == Wrap(oc + 7) \div 8
       IN /\ segment_high' = high
          /\ first_odd' = first
          /\ last_odd' = last
          /\ odd_count' = oc
          /\ byte_count' = by
          /\ sieve' = AllBits(by)
          /\ \/ pc' = "seg_prime"
             \/ last < first /\ pc' = "crashed"
    /\ i' = 0
    /\ UNCHANGED <<path, args, fp, bit_count, p, multiple, prime_count,
                   fbpvars, sqrt_n, base_primes, base_count, segment_low,
                   result, emitted, found, history>>

\* Lines 279-290: the first multiple of the base prime q to clear in a
\* window whose first odd number is first.
FirstMultiple(first, q) ==
    LET m0 == Wrap((Wrap(Wrap(first + q) - 1) \div q) * q)
        m1 == IF m0 % 2 = 0 THEN Wrap(m0 + q) ELSE m0
        sq == Wrap(q * q)
    IN IF m1 < sq
       THEN (IF sq % 2 = 0 THEN Wrap(sq + q) ELSE sq)
       ELSE m1

\* Lines 273-293: the next base prime, skipped when it is 2, and the start
\* of its marking loop; after the last base prime, the initialisation of
\* line 304.
SegPrime ==
    /\ pc = "seg_prime"
    /\ IF i < base_count
       THEN IF base_primes[i + 1] = 2
            THEN /\ p' = 2
                 /\ i' = Wrap(i + 1)
                 /\ UNCHANGED <<multiple, pc>>
            ELSE /\ p' = base_primes[i + 1]
                 /\ multiple' = FirstMultiple(first_odd, base_primes[i + 1])
                 /\ pc' = "seg_mark"
                 /\ UNCHANGED i
       ELSE /\ i' = 0
            /\ pc' = "seg_count"
            /\ UNCHANGED <<p, multiple>>
    /\ UNCHANGED <<path, args, fp, sieve, bit_count, byte_count, prime_count,
                   fbpvars, sqrt_n, base_primes, base_count, winvars,
                   result, emitted, found, history>>

\* Lines 293-300: one iteration of the marking loop, or its exit and i++.
SegMark ==
    /\ pc = "seg_mark"
    /\ IF multiple <= last_odd
       THEN /\ sieve' = IF multiple >= first_odd
                           /\ LocalIdx(multiple, first_odd) < odd_count
                        THEN CLEAR_BIT(sieve, LocalIdx(multiple, first_odd))
                        ELSE sieve
            /\ multiple' = Wrap(multiple + Wrap(2 * p))
            /\ UNCHANGED <<i, pc>>
       ELSE /\ i' = Wrap(i + 1)
            /\ pc' = "seg_prime"
            /\ UNCHANGED <<sieve, multiple>>
    /\ UNCHANGED <<path, args, fp, bit_count, byte_count, p, prime_count,
                   fbpvars, sqrt_n, base_primes, base_count, winvars,
                   result, emitted, found, history>>

\* Lines 304-312: one iteration of the loop that reports a window.
SegCount ==
    /\ pc = "seg_count"
    /\ i < odd_count
    /\ IF GET_BIT(sieve, i)
       THEN Emit(Wrap(first_odd + Wrap(2 * i)))
       ELSE UNCHANGED <<prime_count, found, emitted>>
    /\ i' = Wrap(i + 1)
    /\ UNCHANGED <<pc, path, args, fp, sieve, bit_count, byte_count, p,
                   multiple, fbpvars, sqrt_n, base_primes, base_count,
                   winvars, result, history>>

\* Line 304 (loop exit) and line 314.
SegAdvance ==
    /\ pc = "seg_count"
    /\ ~(i < odd_count)
    /\ segment_low' = Wrap(segment_high + 1)
    /\ pc' = "seg_while"
    /\ UNCHANGED <<path, args, fp, sieve, bit_count, byte_count, i, p,
                   multiple, prime_count, fbpvars, sqrt_n, base_primes,
                   base_count, segment_high, first_odd, last_odd, odd_count,
                   result, emitted, found, history>>

\* Line 257 (loop exit) and lines 317-321: fclose and return prime_count.
SegReturn ==
    /\ pc = "seg_while"
    /\ ~(segment_low <= n)
    /\ result' = prime_count
    /\ pc' = "done"
    /\ UNCHANGED <<path, args, locals, emitted, found, history>>

\* One step of one call.
Step ==
    \/ Dispatch
    \/ SimpleEnter
    \/ SimpleOuter
    \/ SimpleMark
    \/ SimpleOpen
    \/ SimpleCount
    \/ SimpleReturn
    \/ SegEnter
    \/ FbpEnter
    \/ FbpOuter
    \/ FbpMark
    \/ FbpTwo
    \/ FbpCollect
    \/ FbpReturn
    \/ SegOpen
    \/ SegBase
    \/ SegFirstWindow
    \/ SegWindow
    \/ SegPrime
    \/ SegMark
    \/ SegCount
    \/ SegAdvance
    \/ SegReturn

\* ------------------------------------------------------------------------
\* Callers
\* ------------------------------------------------------------------------

\* What a caller keeps of a call that returned.  fclose leaves the pointer fp
\* as it was, so fp still tells whether the file had been opened.
Outcome ==
    [entry |-> entry, path |-> path, span |-> segment_size,
     output_file |-> output_file, fp |-> fp,
     result |-> result, emitted |-> emitted, found |-> found]

\* The state of a call that has not run yet.
Fresh ==
    /\ path' = "none"
    /\ fp' = "NULL" /\ sieve' = {} /\ bit_count' = 0 /\ byte_count' = 0
    /\ i' = 0 /\ p' = 0 /\ multiple' = 0 /\ prime_count' = 0
    /\ limit' = 0 /\ max_primes' = 0 /\ count' = 0
    /\ sqrt_n' = 0 /\ base_primes' = <<>> /\ base_count' = 0
    /\ segment_low' = 0 /\ segment_high' = 0 /\ first_odd' = 0
    /\ last_odd' = 0 /\ odd_count' = 0
    /\ result' = 0 /\ emitted' = <<>> /\ found' = <<>>

\* The public function (src/sieve.h:14) is called once more with the same n
\* and a fresh sink.
CallAgain ==
    /\ pc = "done"
    /\ calls = 1
    /\ prev' = Outcome
    /\ calls' = 2
    /\ pc' = "dispatch"
    /\ entry' = "sieve_of_eratosthenes"
    /\ output_file' \in {"NULL", "path"}
    /\ segment_size' = SEGMENT_SIZE
    /\ Fresh
    /\ UNCHANGED n

Next == Step \/ CallAgain

Spec == Init /\ [][Next]_vars

\* The cross-validation harness of the testable properties: an engine is
\* called directly (src/sieve.c:100 and 224), the segmented one in a build
\* with any of the window spans, whatever the threshold.
HarnessInit ==
    /\ \/ pc = "simple" /\ entry = "sieve_simple"
          /\ segment_size = SEGMENT_SIZE
       \/ pc = "segmented" /\ entry = "sieve_segmented"
          /\ segment_size \in Spans
    /\ path = "none"
    /\ n \in 0..MaxHarnessN
    /\ output_file \in {"NULL", "path"}
    /\ FreshLocals
    /\ result = 0 /\ emitted = <<>> /\ found = <<>>
    /\ calls = 1 /\ prev = NoCall

\* After a call that wrote its primes, the harness calls an engine directly
\* with the same n and a fresh file.
CallEngine ==
    /\ pc = "done"
    /\ calls = 1
    /\ fp = "open"
    /\ prev' = Outcome
    /\ calls' = 2
    /\ \/ pc' = "simple" /\ entry' = "sieve_simple"
          /\ segment_size' = SEGMENT_SIZE
       \/ pc' = "segmented" /\ entry' = "sieve_segmented"
          /\ segment_size' \in Spans
    /\ output_file' = "path"
    /\ Fresh
    /\ UNCHANGED n

HarnessNext == Next \/ CallEngine

HarnessSpec == HarnessInit /\ [][HarnessNext]_vars

\* ------------------------------------------------------------------------
\* Properties
\* ------------------------------------------------------------------------

\* The primes a word can hold.
Primes == PrimesUpTo(SIZE_MAX)

ViaDispatcher == entry = "sieve_of_eratosthenes"

\* C1: every call of sieve_of_eratosthenes(n, output_file) returns, and the
\* value it returns is the number of primes p with 2 <= p <= n, on the
\* single-pass path and on the segmented path alike.
C1_ReturnsPrimeCount ==
    ViaDispatcher =>
        /\ pc # "crashed"
        /\ (pc = "done" => result = Cardinality(Primes \cap (2..n)))

\* C2: on both paths every value that is counted or written is a prime p
\* with 2 <= p <= n.
C2_OnlyPrimesReported ==
    ViaDispatcher =>
        /\ \A k \in 1..Len(found) : found[k] \in Primes /\ found[k] <= n
        /\ \A k \in 1..Len(emitted) : emitted[k] \in Primes /\ emitted[k] <= n

\* C3: when a call of sieve_of_eratosthenes has returned, every integer of
\* 2..n that was not counted is composite, and 2 was counted first when
\* n >= 2.
C3_NoPrimeDropped ==
    (ViaDispatcher /\ pc = "done") =>
        /\ \A m \in 2..n : m \notin Range(found) => m \notin Primes
        /\ (n >= 2 => found # <<>> /\ found[1] = 2)
        /\ (fp = "open" => emitted = found)

\* C4: with n < 2 a call returns 0 and nothing else happens: no bit buffer
\* is built, no file is opened, nothing is counted or written.
C4_BelowTwo ==
    n < 2 =>
        /\ pc \in {"dispatch", "simple", "segmented", "done"}
        /\ found = <<>> /\ emitted = <<>>
        /\ fp = "NULL"
        /\ sieve = {} /\ bit_count = 0 /\ byte_count = 0
        /\ (pc = "done" => result = 0)

\* Each engine and the dispatcher have returned from a call with n < 2 and a
\* file to write.
C4_Witness ==
    /\ n < 2 /\ pc = "done" /\ output_file = "path"
    /\ entry = "sieve_segmented" /\ path = "segmented"

\* C5: the values written by a call of sieve_of_eratosthenes are strictly
\* increasing and start with 2, and on the segmented path the base primes
\* come before every window result.
C5_StrictlyIncreasing ==
    ViaDispatcher =>
        /\ StrictlyIncreasing(emitted)
        /\ StrictlyIncreasing(found)
        /\ (found # <<>> => found[1] = 2)
        /\ (pc \in {"seg_while", "seg_prime", "seg_mark", "seg_count"} =>
              /\ Len(found) >= base_count
              /\ SubSeq(found, 1, base_count) = base_primes)

\* C6: for every n, sieve_simple(n) and sieve_segmented(n) both return, with
\* the same count and the same sequence of values.
C6_EnginesAgree ==
    (calls = 2 /\ prev.entry = "sieve_simple" /\ entry = "sieve_segmented") =>
        /\ pc # "crashed"
        /\ (pc = "done" =>
              /\ result = prev.result
              /\ found = prev.found
              /\ (fp = "open" => emitted = prev.emitted))

\* C7: for every n, the segmented sieve built with two different window
\* spans returns the same count and the same sequence of values.
C7_SpanIndependent ==
    (/\ calls = 2 /\ prev.entry = "sieve_segmented"
     /\ entry = "sieve_segmented" /\ prev.span # segment_size) =>
        /\ pc # "crashed"
        /\ (pc = "done" =>
              /\ result = prev.result
              /\ found = prev.found
              /\ (fp = "open" => emitted = prev.emitted))

\* The engine the dispatcher is to select for a bound m.
Selected(m) == IF m < THRESHOLD THEN "simple" ELSE "segmented"

\* C8: the dispatcher only selects: below THRESHOLD the single-pass engine
\* runs, from THRESHOLD on the segmented one, the selected engine starts from
\* an untouched state, and the call returns and writes exactly what a direct
\* call of that engine does.
C8_PureSelection ==
    ViaDispatcher =>
        /\ (pc # "dispatch" => path = Selected(n))
        /\ (pc \in {"simple", "segmented"} =>
              /\ pc = Selected(n)
              /\ FreshLocals
              /\ result = 0 /\ emitted = <<>> /\ found = <<>>)
        /\ (/\ pc = "done" /\ calls = 2
            /\ prev.entry = "sieve_" \o Selected(n)
            /\ prev.span = SEGMENT_SIZE /\ prev.fp = fp
            => /\ result = prev.result
               /\ found = prev.found
               /\ emitted = prev.emitted)

\* The dispatcher has returned what a direct call of the segmented engine
\* had returned for the same n.
C8_Witness ==
    /\ ViaDispatcher /\ pc = "done" /\ calls = 2
    /\ n >= THRESHOLD /\ path = "segmented"
    /\ prev.entry = "sieve_segmented" /\ prev.span = SEGMENT_SIZE
    /\ prev.fp = fp /\ fp = "open"
    /\ result = prev.result /\ result > 0

\* C9: the count a call returns does not depend on the sink: it is the
\* number of values counted, a second call with the same n returns the same
\* count whatever became of either file, an open file holds exactly the
\* values counted, and nothing is written without one.
C9_SinkIndependent ==
    pc = "done" =>
        /\ result = Len(found)
        /\ (fp = "open" => emitted = found /\ Len(emitted) = result)
        /\ (fp = "NULL" => emitted = <<>>)
        /\ (calls = 2 => result = prev.result /\ found = prev.found)

\* A call whose fopen failed has returned the positive count of an earlier
\* call, with the same n, that wrote its primes.
C9_Witness ==
    /\ pc = "done" /\ calls = 2
    /\ prev.fp = "open" /\ output_file = "path" /\ fp = "NULL"
    /\ path = "segmented" /\ result = prev.result /\ result > 0

\* C10: a call of sieve_of_eratosthenes runs to completion: as long as it
\* has not returned, it has a next step.
C10_RunsToCompletion ==
    (ViaDispatcher /\ Len(found) < MaxFound) =>
        (pc = "done" \/ ENABLED Step)


\* The steps of sieve_segmented that work on a computed window.
InWindow == pc \in {"seg_prime", "seg_mark", "seg_count"}

\* C11: the windows of the segmented path partition (floor(sqrt(n)), n]: the
\* first window starts at sqrt_n + 1 and every next one at the previous
\* high + 1, every window has low <= high <= n, every window but the last
\* spans exactly segment_size numbers, and the last window ends at n.
C11_WindowsPartition ==
    path = "segmented" =>
        /\ InWindow =>
              /\ segment_low <= segment_high
              /\ segment_high <= n
              /\ segment_low >= sqrt_n + 1
              /\ (segment_low - (sqrt_n + 1)) % segment_size = 0
              /\ (segment_high < n =>
                     segment_high = segment_low + segment_size - 1)
        /\ pc = "seg_while" =>
              \/ segment_high = 0 /\ segment_low = sqrt_n + 1
              \/ segment_high # 0 /\ segment_low = segment_high + 1
        /\ (pc = "done" /\ n >= 2) => segment_high = n

\* The odd numbers of lo..hi.
OddsIn(lo, hi) == {k \in lo..hi : k % 2 = 1}

\* C12: for every window, a last window of a single number included,
\* odd_count is the number of odd integers in [segment_low, segment_high],
\* so the window's buffer never holds more than segment_size / 2 bits
\* (rounded up for an odd span).
C12_OddCountExact ==
    (path = "segmented" /\ (InWindow \/ pc = "crashed")) =>
        /\ odd_count = Cardinality(OddsIn(segment_low, segment_high))
        /\ odd_count <= (segment_size + 1) \div 2

\* The index the next step passes to GET_BIT or CLEAR_BIT, as a set that is
\* empty when the step touches no bit: the i of the outer and counting
\* loops, the bit_idx of the marking loops (src/sieve.c:121, 127, 157, 194,
\* 196, 212), and in a window the local_idx that passed the tests of lines
\* 294 and 296 and the i of line 305.
AccessedIdx ==
    CASE pc = "simple_outer" ->
             IF Wrap(Wrap(2 * i + 1) * Wrap(2 * i + 1)) <= n
             THEN {i} ELSE {}
      [] pc = "fbp_outer" ->
             IF Wrap(Wrap(2 * i + 1) * Wrap(2 * i + 1)) <= limit
             THEN {i} ELSE {}
      [] pc = "simple_mark" ->
             IF multiple <= n THEN {BitIdx(multiple)} ELSE {}
      [] pc = "fbp_mark" ->
             IF multiple <= limit THEN {BitIdx(multiple)} ELSE {}
      [] pc = "simple_count" -> IF i < bit_count THEN {i} ELSE {}
      [] pc = "fbp_collect" ->
             IF i < bit_count /\ count < max_primes THEN {i} ELSE {}
      [] pc = "seg_mark" ->
             IF /\ multiple <= last_odd
                /\ multiple >= first_odd
                /\ LocalIdx(multiple, first_odd) < odd_count
             THEN {LocalIdx(multiple, first_odd)} ELSE {}
      [] pc = "seg_count" -> IF i < odd_count THEN {i} ELSE {}
      [] OTHER -> {}

\* The bit count of the buffer the current step works on.
BufferBits == IF InWindow THEN odd_count ELSE bit_count

\* C13: every index passed to GET_BIT or CLEAR_BIT in sieve_simple,
\* find_base_primes and sieve_segmented is below the bit count of the buffer
\* it addresses (bit_count for the full-range sets, odd_count for a window),
\* and so inside the buffer's bytes.
C13_IndexInRange ==
    \A idx \in AccessedIdx : idx < BufferBits /\ InBuffer(idx, byte_count)

\* A marking step of sieve_simple is about to clear the bit of the largest
\* odd number of the range, the last index of its buffer.
C13_Witness ==
    /\ pc = "simple_mark"
    /\ multiple = n
    /\ AccessedIdx = {bit_count - 1}

\* C14: every bit set is created with all its bits true (the marking of 1 as
\* a non-prime, CLEAR_BIT(sieve, 0), belongs to the creation of a full-range
\* set) and afterwards bits are only cleared: a false bit stays false, and
\* clearing a bit that is already clear leaves the set unchanged.
C14_BitsOnlyCleared ==
    [][/\ CASE pc \in {"simple", "fbp"} /\ pc' \in {"simple_outer", "fbp_outer",
                                                    "crashed"} ->
                 sieve' = AllBits(byte_count') \ {0}
            [] pc = "seg_while" /\ pc' \in {"seg_prime", "crashed"} ->
                 sieve' = AllBits(byte_count')
            [] OTHER -> sieve' \subseteq sieve
       /\ (pc \in {"simple_mark", "fbp_mark", "seg_mark"}
           /\ AccessedIdx \cap sieve = {}) => sieve' = sieve]_vars

\* A marking step of a window is about to clear a bit that an earlier base
\* prime has cleared already.
C14_Witness ==
    /\ pc = "seg_mark"
    /\ AccessedIdx # {}
    /\ AccessedIdx \cap sieve = {}
    /\ sieve # AllBits(byte_count)

\* The bound of the full-range sieve at work: limit inside find_base_primes,
\* n inside sieve_simple.
SieveBound ==
    IF pc \in {"fbp_outer", "fbp_mark", "fbp_two", "fbp_collect"}
    THEN limit
    ELSE n

\* The odd multiples of q in lo..hi.
OddMultiples(q, lo, hi) == {m \in lo..hi : m % 2 = 1 /\ m % q = 0}

\* The bits a full-range sieve over 1..bound has cleared once the inner loops
\* of the primes below q are done and the inner loop of q has reached upto:
\* bit 0 (the number 1) and, for each of these primes r, the bits of r*r,
\* r*r + 2r, ... up to the bound.
ClearedSoFar(q, upto, bound) ==
    {0} \cup {BitIdx(m) : m \in
                UNION {OddMultiples(r, r * r, bound) :
                           r \in {r \in Primes : 2 < r /\ r < q}}
                \cup OddMultiples(q, q * q, IF upto - 1 < bound
                                            THEN upto - 1 ELSE bound)}

\* C15: in the single-pass sieve (sieve_simple and find_base_primes alike),
\* when the outer loop enters the inner loop for index i, p = 2i + 1 is
\* prime and every odd composite multiple of p below p*p is cleared already;
\* the inner loop clears exactly p*p, p*p + 2p, ... up to the bound; and
\* after the outer loop bit i is set exactly when 2i + 1 is prime, for
\* 1 <= i < bit_count.
C15_SinglePassSieve ==
    /\ pc \in {"simple_mark", "fbp_mark"} =>
          /\ p = 2 * i + 1
          /\ p \in Primes
          /\ \A m \in OddMultiples(p, p + 1, p * p - 1) :
                 m <= SieveBound => ~GET_BIT(sieve, BitIdx(m))
          /\ multiple >= p * p
          /\ (multiple - p * p) % (2 * p) = 0
          /\ AllBits(byte_count) \ sieve
                 = ClearedSoFar(p, multiple, SieveBound)
    /\ pc \in {"simple_open", "simple_count", "fbp_two", "fbp_collect"} =>
          \A k \in 1..(bit_count - 1) :
              GET_BIT(sieve, k) <=> (2 * k + 1) \in Primes

\* sieve_simple has cleared 25 in the inner loop of p = 5 and moved on to 35.
C15_Witness ==
    /\ pc = "simple_mark"
    /\ p = 5
    /\ multiple = 35
    /\ ~GET_BIT(sieve, BitIdx(25))
    /\ n >= 35

\* The numbers the base prime q has to clear in the current window: its odd
\* multiples from max(segment_low, q*q) up to the window's last odd number.
WindowMultiples(q) ==
    OddMultiples(q, IF q * q > segment_low THEN q * q ELSE segment_low,
                 last_odd)

\* The numbers whose bit is clear in the window's buffer.
ClearedNumbers == {first_odd + 2 * k : k \in AllBits(byte_count) \ sieve}

Least(S) == CHOOSE x \in S : \A y \in S : x <= y

\* C16: in each window and for each base prime p other than 2, the marking
\* loop starts at the smallest odd multiple of p that is at least
\* max(segment_low, p*p), every number it clears is one of the odd multiples
\* of p from there up to the window's last odd number, none of these is
\* left out when the loop ends, and no number outside the window and no
\* base prime is ever cleared.
C16_WindowMarking ==
    [][/\ (pc = "seg_prime" /\ pc' = "seg_mark") =>
              /\ p' # 2
              /\ IF WindowMultiples(p') # {}
                 THEN multiple' = Least(WindowMultiples(p'))
                 ELSE multiple' > last_odd
       /\ (pc = "seg_mark" /\ AccessedIdx # {}) =>
              /\ multiple \in WindowMultiples(p)
              /\ ClearedNumbers' = ClearedNumbers \cup {multiple}
       /\ (pc = "seg_mark" /\ pc' = "seg_prime") =>
              WindowMultiples(p) \subseteq ClearedNumbers
       /\ pc = "seg_mark" =>
              /\ ClearedNumbers' \subseteq segment_low..segment_high
              /\ ClearedNumbers' \cap Range(base_primes) = {}]_vars

\* The elements of the set S of numbers in increasing order.
RECURSIVE Ascending(_)
Ascending(S) ==
    IF S = {} THEN <<>> ELSE <<Least(S)>> \o Ascending(S \ {Least(S)})

\* The steps of sieve_segmented after the call of find_base_primes.
AfterBasePrimes ==
    pc \in {"seg_open", "seg_base", "seg_while", "seg_prime", "seg_mark",
            "seg_count", "crashed"}
    \/ (pc = "done" /\ n >= 2)

\* C17: for every n >= 2 handled by the segmented sieve, the list that
\* find_base_primes(floor(sqrt(n)), base_primes, floor(sqrt(n))) returns is
\* exactly the primes <= floor(sqrt(n)) in increasing order, the capacity
\* never cuts it short, and the list stays as it is while the windows are
\* processed.
C17_BasePrimesExact ==
    (path = "segmented" /\ AfterBasePrimes) =>
        /\ base_primes = Ascending(Primes \cap (2..ISqrt(n)))
        /\ base_count = Len(base_primes)
        /\ base_count <= max_primes

\* The exact (unbounded) values of the size_t expressions the next step
\* evaluates: n + 1 and limit + 1 (src/sieve.c:110, 184), (2i+1)*(2i+1) and
\* p*p (120, 126, 192, 195), multiple + 2p (126, 195, 293),
\* segment_low + SEGMENT_SIZE - 1 (258), the bounds first_odd and last_odd
\* and their difference (264-266), first_odd + p - 1, first_multiple + p and
\* p*p (279-286), first_odd + 2i (306) and segment_high + 1 (314).
ExactValues ==
    CASE pc = "simple" -> IF TerminalCase(n) THEN {} ELSE {n + 1}
      [] pc = "fbp" -> IF limit < 2 THEN {} ELSE {limit + 1}
      [] pc \in {"simple_outer", "fbp_outer"} ->
             {2 * i + 1, (2 * i + 1) * (2 * i + 1)}
      [] pc = "simple_mark" ->
             IF multiple <= n THEN {2 * p, multiple + 2 * p} ELSE {i + 1}
      [] pc = "fbp_mark" ->
             IF multiple <= limit THEN {2 * p, multiple + 2 * p}
             ELSE {i + 1}
      [] pc = "seg_base" -> IF i < base_count THEN {} ELSE {sqrt_n + 1}
      [] pc = "seg_while" ->
             IF segment_low <= n
             THEN LET reach == segment_low + segment_size - 1
                      high  == IF Wrap(reach) > n THEN n ELSE Wrap(reach)
                      first == IF segment_low % 2 = 0 THEN segment_low + 1
                               ELSE segment_low
                      last  == IF high % 2 = 0 THEN high - 1 ELSE high
                  IN {reach, first, last, Wrap(last) - Wrap(first)}
             ELSE {}
      [] pc = "seg_prime" ->
             IF i < base_count /\ base_primes[i + 1] # 2
             THEN LET q  == base_primes[i + 1]
                      m0 == ((first_odd + q - 1) \div q) * q
                  IN {first_odd + q - 1, m0,
                      IF m0 % 2 = 0 THEN m0 + q ELSE m0, q * q}
             ELSE {}
      [] pc = "seg_mark" ->
             IF multiple <= last_odd THEN {2 * p, multiple + 2 * p}
             ELSE {i + 1}
      [] pc = "seg_count" ->
             IF i < odd_count
             THEN (IF GET_BIT(sieve, i) THEN {first_odd + 2 * i} ELSE {})
             ELSE {segment_high + 1}
      [] OTHER -> {}

\* C18: for every representable n no size_t computation wraps around: n + 1,
\* (2i+1)*(2i+1), p*p, multiple + 2p, segment_low + SEGMENT_SIZE - 1,
\* segment_high + 1, first_multiple + p and last_odd - first_odd all stay
\* within 0..SIZE_MAX.
C18_NoWrapAround ==
    \A v \in ExactValues : 0 <= v /\ v <= SIZE_MAX

====
